---------------------------- MODULE Spec2Model ----------------------------
(***************************************************************************)
(* A model of hw_07.py: the in-memory contact book (Field, Phone,          *)
(* Birthday, Record, AddressBook), its command handlers behind the         *)
(* input_error decorator, and the command loop of main.                    *)
(*                                                                         *)
(* A Python str is a sequence of characters; a character is a one-element  *)
(* TLA+ string, except "U+00B2" which names the code point SUPERSCRIPT TWO *)
(* (a character for which str.isdigit() is true and that is no decimal     *)
(* digit).  The fixed messages of the program are TLA+ strings.            *)
(* None is the empty tuple <<>> and an object reference that may be None   *)
(* is a tuple of at most one element.                                      *)
(***************************************************************************)
EXTENDS Integers, Sequences, FiniteSets, TLC

VARIABLES
    data,      \* AddressBook.data: the dict, as the sequence of its items
    prev,      \* data as it was when the last call was made (history)
    op,        \* the call made last: [name |-> ..., args |-> <<...>>]
    ret,       \* what that call returned or raised
    loop       \* main's command loop: "prompt", "exited" or "crashed"

vars == <<data, prev, op, ret, loop>>

---------------------------------------------------------------------------
(* Bounds of the model *)

\* Record.phones is an unbounded list: a call that would leave more than
\* MaxPhones phones in the book, all Records together, is not explored.
MaxPhones == 2

---------------------------------------------------------------------------
(* Characters and str methods *)

AsciiDigits == {"0", "1", "2", "3", "4", "5", "6", "7", "8", "9"}

\* Characters c with c.isdigit() that are outside 0..9 (Unicode Numeric_Type
\* Digit): the model's alphabet has one of them.
OtherDigits == {"U+00B2"}

Whitespace == {" ", "\t"}

UpperCase == <<"A", "B", "C", "D", "E", "F", "G", "H", "I", "J", "K", "L", "M",
               "N", "O", "P", "Q", "R", "S", "T", "U", "V", "W", "X", "Y", "Z">>

LowerCase == <<"a", "b", "c", "d", "e", "f", "g", "h", "i", "j", "k", "l", "m",
               "n", "o", "p", "q", "r", "s", "t", "u", "v", "w", "x", "y", "z">>

None == <<>>

\* str.isdigit(): non-empty and every character is a digit character.
IsDigit(s) == s # <<>> /\ \A i \in 1..Len(s) : s[i] \in AsciiDigits \cup OtherDigits

LowerChar(c) ==
    IF \E i \in 1..Len(UpperCase) : UpperCase[i] = c
    THEN LowerCase[CHOOSE i \in 1..Len(UpperCase) : UpperCase[i] = c]
    ELSE c

\* str.lower()
Lower(s) == [i \in 1..Len(s) |-> LowerChar(s[i])]

\* str.strip(): leading and trailing whitespace removed.
RECURSIVE LStrip(_)
LStrip(s) == IF s # <<>> /\ Head(s) \in Whitespace THEN LStrip(Tail(s)) ELSE s

RECURSIVE RStrip(_)
RStrip(s) ==
    IF s # <<>> /\ s[Len(s)] \in Whitespace THEN RStrip(SubSeq(s, 1, Len(s) - 1)) ELSE s

Strip(s) == RStrip(LStrip(s))

\* str.split() with no separator: the maximal runs of non-whitespace.
RECURSIVE SplitFrom(_, _, _)
SplitFrom(s, cur, acc) ==
    IF s = <<>>
    THEN IF cur = <<>> THEN acc ELSE Append(acc, cur)
    ELSE IF Head(s) \in Whitespace
         THEN SplitFrom(Tail(s), <<>>, IF cur = <<>> THEN acc ELSE Append(acc, cur))
         ELSE SplitFrom(Tail(s), Append(cur, Head(s)), acc)

Split(s) == SplitFrom(s, <<>>, <<>>)

\* sep.join(parts)
RECURSIVE Join(_, _)
Join(sep, parts) ==
    IF parts = <<>> THEN <<>>
    ELSE IF Len(parts) = 1 THEN parts[1]
    ELSE parts[1] \o sep \o Join(sep, Tail(parts))

DigitVal(c) ==
    CASE c = "0" -> 0 [] c = "1" -> 1 [] c = "2" -> 2 [] c = "3" -> 3 [] c = "4" -> 4
      [] c = "5" -> 5 [] c = "6" -> 6 [] c = "7" -> 7 [] c = "8" -> 8 [] c = "9" -> 9

DigitChar(n) == CHOOSE c \in AsciiDigits : DigitVal(c) = n

\* int(s) of a string of decimal digits
RECURSIVE IntOf(_)
IntOf(s) == IF s = <<>> THEN 0 ELSE 10 * IntOf(SubSeq(s, 1, Len(s) - 1)) + DigitVal(s[Len(s)])

---------------------------------------------------------------------------
(* datetime.date: [year, month, day] in the proleptic Gregorian calendar *)

MkDate(y, m, d) == [year |-> y, month |-> m, day |-> d]

IsLeap(y) == y % 4 = 0 /\ (y % 100 # 0 \/ y % 400 = 0)

DaysInMonth(y, m) ==
    CASE m \in {1, 3, 5, 7, 8, 10, 12} -> 31
      [] m \in {4, 6, 9, 11} -> 30
      [] m = 2 -> IF IsLeap(y) THEN 29 ELSE 28

\* What the date constructor accepts (MINYEAR = 1, MAXYEAR = 9999).
ValidDate(y, m, d) ==
    /\ y \in 1..9999
    /\ m \in 1..12
    /\ d \in 1..DaysInMonth(y, m)

RECURSIVE DaysBeforeMonth(_, _)
DaysBeforeMonth(y, m) == IF m = 1 THEN 0 ELSE DaysBeforeMonth(y, m - 1) + DaysInMonth(y, m - 1)

DaysBeforeYear(y) == (y - 1) * 365 + (y - 1) \div 4 - (y - 1) \div 100 + (y - 1) \div 400

\* date.toordinal(): 1 for 0001-01-01
ToOrdinal(dt) == DaysBeforeYear(dt.year) + DaysBeforeMonth(dt.year, dt.month) + dt.day

\* date.weekday(): Monday is 0, Sunday is 6
Weekday(dt) == (ToOrdinal(dt) + 6) % 7

\* date < date
DateLess(a, b) == ToOrdinal(a) < ToOrdinal(b)

\* (a - b).days
DaysBetween(a, b) == ToOrdinal(a) - ToOrdinal(b)

NextDay(dt) ==
    IF dt.day < DaysInMonth(dt.year, dt.month) THEN MkDate(dt.year, dt.month, dt.day + 1)
    ELSE IF dt.month < 12 THEN MkDate(dt.year, dt.month + 1, 1)
    ELSE MkDate(dt.year + 1, 1, 1)

\* date + timedelta(days=k), k >= 0
RECURSIVE DatePlus(_, _)
DatePlus(dt, k) == IF k = 0 THEN dt ELSE DatePlus(NextDay(dt), k - 1)

\* date.replace(year=y): the date, or ValueError when the day does not exist
\* in that year (29 February of a year that is not a leap year).
ReplaceYear(dt, y) ==
    IF ValidDate(y, dt.month, dt.day)
    THEN [exc |-> "", val |-> MkDate(y, dt.month, dt.day)]
    ELSE [exc |-> "ValueError", val |-> MkDate(y, dt.month, dt.day)]

\* The alternatives of _strptime's pattern for %d: 3[0-1] | [1-2]\d | 0[1-9]
\* | [1-9] | " "[1-9]
MatchesDay(s) ==
    \/ Len(s) = 2 /\ s[1] = "3" /\ s[2] \in {"0", "1"}
    \/ Len(s) = 2 /\ s[1] \in {"1", "2"} /\ s[2] \in AsciiDigits
    \/ Len(s) = 2 /\ s[1] = "0" /\ s[2] \in AsciiDigits \ {"0"}
    \/ Len(s) = 1 /\ s[1] \in AsciiDigits \ {"0"}
    \/ Len(s) = 2 /\ s[1] = " " /\ s[2] \in AsciiDigits \ {"0"}

\* %m: 1[0-2] | 0[1-9] | [1-9]
MatchesMonth(s) ==
    \/ Len(s) = 2 /\ s[1] = "1" /\ s[2] \in {"0", "1", "2"}
    \/ Len(s) = 2 /\ s[1] = "0" /\ s[2] \in AsciiDigits \ {"0"}
    \/ Len(s) = 1 /\ s[1] \in AsciiDigits \ {"0"}

\* %Y: \d\d\d\d
MatchesYear(s) == Len(s) = 4 /\ \A i \in 1..4 : s[i] \in AsciiDigits

\* The ways the whole of s matches %d.%m.%Y: <<length of the day, length of
\* the month>>.  There is at most one.
StrptimeMatches(s) ==
    {lm \in {1, 2} \X {1, 2} :
        /\ Len(s) = lm[1] + lm[2] + 6
        /\ MatchesDay(SubSeq(s, 1, lm[1]))
        /\ s[lm[1] + 1] = "."
        /\ MatchesMonth(SubSeq(s, lm[1] + 2, lm[1] + 1 + lm[2]))
        /\ s[lm[1] + lm[2] + 2] = "."
        /\ MatchesYear(SubSeq(s, lm[1] + lm[2] + 3, Len(s)))}

\* datetime.strptime(s, "%d.%m.%Y").date(): the date, or ValueError when s
\* does not match the format or names no date of the calendar.
Strptime(s) ==
    IF StrptimeMatches(s) = {} THEN [exc |-> "ValueError", val |-> MkDate(0, 0, 0)]
    ELSE LET lm == CHOOSE x \in StrptimeMatches(s) : TRUE
             d  == IntOf(LStrip(SubSeq(s, 1, lm[1])))
             m  == IntOf(SubSeq(s, lm[1] + 2, lm[1] + 1 + lm[2]))
             y  == IntOf(SubSeq(s, lm[1] + lm[2] + 3, Len(s)))
         IN  IF ValidDate(y, m, d)
             THEN [exc |-> "", val |-> MkDate(y, m, d)]
             ELSE [exc |-> "ValueError", val |-> MkDate(y, m, d)]

TwoDigits(n) == <<DigitChar(n \div 10), DigitChar(n % 10)>>

FourDigits(n) ==
    <<DigitChar(n \div 1000), DigitChar((n \div 100) % 10),
      DigitChar((n \div 10) % 10), DigitChar(n % 10)>>

\* date.strftime("%d.%m.%Y") for a year of four digits
Strftime(dt) == TwoDigits(dt.day) \o <<".">> \o TwoDigits(dt.month) \o <<".">> \o FourDigits(dt.year)

---------------------------------------------------------------------------
(* Results.  A call returns or raises: exc is "" or the exception's class, *)
(* msg is str(e) of the exception raised, or the returned str when it is   *)
(* one of the program's fixed messages; val is any other returned value.   *)

Return(v) == [exc |-> "", msg |-> "", val |-> v]

ReturnMsg(m) == [exc |-> "", msg |-> m, val |-> None]

Raise(e, m) == [exc |-> e, msg |-> m, val |-> None]

---------------------------------------------------------------------------
(* Field, Name, Phone, Birthday *)

\* Field.__init__ / Name: any value is stored as it is.
Field(value) == [value |-> value]

\* Phone.__init__
Phone(value) ==
    IF ~IsDigit(value) \/ Len(value) # 10
    THEN Raise("ValueError", "Phone number must be 10 digits")
    ELSE Return(Field(value))

\* Birthday.__init__
Birthday(value) ==
    IF Strptime(value).exc # ""
    THEN Raise("ValueError", "Invalid date. Ensure the date is valid and in DD.MM.YYYY format")
    ELSE Return(Field(value))

---------------------------------------------------------------------------
(* Record.  A method is an operator from the record to [res, rec]: what    *)
(* the call returned or raised, and the record after it.                   *)

\* Record.__init__ with an empty name replaced by a placeholder.
RecordNamePlaceholder(name) ==
    [name |-> Field(IF name = <<>> THEN <<"?">> ELSE name), phones |-> <<>>, birthday |-> None]

\* Record.__init__
Record(name) == [name |-> Field(name), phones |-> <<>>, birthday |-> None]

\* The index of the first phone of the list whose value is phone, or 0.
PhoneIndex(phones, phone) ==
    IF \E i \in 1..Len(phones) : phones[i].value = phone
    THEN CHOOSE i \in 1..Len(phones) :
            /\ phones[i].value = phone
            /\ \A j \in 1..(i - 1) : phones[j].value # phone
    ELSE 0

\* Record.find_phone: the first phone with that value, or None.
find_phone(rec, phone) ==
    IF PhoneIndex(rec.phones, phone) = 0 THEN None
    ELSE <<rec.phones[PhoneIndex(rec.phones, phone)]>>

\* list.remove(x) for the x at index i
RemoveAt(list, i) == SubSeq(list, 1, i - 1) \o SubSeq(list, i + 1, Len(list))

\* Record.add_phone
add_phone(rec, phone) ==
    LET p == Phone(phone)
    IN  IF p.exc # "" THEN [res |-> p, rec |-> rec]
        ELSE [res |-> Return(None), rec |-> [rec EXCEPT !.phones = Append(@, p.val)]]

\* Record.remove_phone.  list.remove takes out the first element that is
\* phone_obj, which is the first one with that value.
remove_phone(rec, phone) ==
    LET i == PhoneIndex(rec.phones, phone)
    IN  IF i # 0
        THEN [res |-> Return(None), rec |-> [rec EXCEPT !.phones = RemoveAt(@, i)]]
        ELSE [res |-> Raise("ValueError", "Phone number not found"), rec |-> rec]

\* edit_phone with the old phone removed before the new one is constructed.
edit_phoneRemoveFirst(rec, old_phone, new_phone) ==
    LET i == PhoneIndex(rec.phones, old_phone)
    IN  IF i # 0
        THEN LET new_phone_obj == Phone(new_phone)
                 removed == [rec EXCEPT !.phones = RemoveAt(@, i)]
             IN  IF new_phone_obj.exc # "" THEN [res |-> new_phone_obj, rec |-> removed]
                 ELSE [res |-> Return(None),
                       rec |-> [removed EXCEPT !.phones = Append(@, new_phone_obj.val)]]
        ELSE [res |-> Raise("ValueError", "Old phone number not found"), rec |-> rec]

\* Record.edit_phone: the new Phone is constructed (and may raise) before
\* the old one is removed.
edit_phone(rec, old_phone, new_phone) ==
    LET i == PhoneIndex(rec.phones, old_phone)
    IN  IF i # 0
        THEN LET new_phone_obj == Phone(new_phone)
             IN  IF new_phone_obj.exc # "" THEN [res |-> new_phone_obj, rec |-> rec]
                 ELSE [res |-> Return(None),
                       rec |-> [rec EXCEPT !.phones = Append(RemoveAt(@, i), new_phone_obj.val)]]
        ELSE [res |-> Raise("ValueError", "Old phone number not found"), rec |-> rec]

\* Record.add_birthday
add_birthday(rec, birthday) ==
    LET b == Birthday(birthday)
    IN  IF b.exc # "" THEN [res |-> b, rec |-> rec]
        ELSE [res |-> Return(None), rec |-> [rec EXCEPT !.birthday = <<b.val>>]]

PhoneValues(rec) == [i \in 1..Len(rec.phones) |-> rec.phones[i].value]

TxtContactName == <<"C", "o", "n", "t", "a", "c", "t", " ", "n", "a", "m", "e", ":", " ">>

TxtPhones == <<",", " ", "p", "h", "o", "n", "e", "s", ":", " ">>

TxtBirthday == <<",", " ", "b", "i", "r", "t", "h", "d", "a", "y", ":", " ">>

TxtNoPhones == <<"N", "o", " ", "p", "h", "o", "n", "e", "s">>

TxtNoBirthday == <<"N", "o", " ", "b", "i", "r", "t", "h", "d", "a", "y">>

\* "; ".join(p.value for p in phones) if phones else "No phones"
JoinedPhones(rec) ==
    IF rec.phones # <<>> THEN Join(<<";", " ">>, PhoneValues(rec)) ELSE TxtNoPhones

\* Record.__str__
RecordStr(rec) ==
    TxtContactName \o rec.name.value \o TxtPhones \o JoinedPhones(rec) \o TxtBirthday
        \o (IF rec.birthday # None THEN rec.birthday[1].value ELSE TxtNoBirthday)

---------------------------------------------------------------------------
(* AddressBook.  The dict data is the sequence of its items                *)
(* [key, value] in insertion order.                                        *)

KeyIndex(d, key) ==
    IF \E i \in 1..Len(d) : d[i].key = key
    THEN CHOOSE i \in 1..Len(d) : d[i].key = key /\ \A j \in 1..(i - 1) : d[j].key # key
    ELSE 0

\* DictSet that never looks for the key: every assignment adds an item.
DictSetAlwaysAppend(d, key, value) == Append(d, [key |-> key, value |-> value])

\* d[key] = value: an existing key keeps its place, a new one goes last.
DictSet(d, key, value) ==
    IF KeyIndex(d, key) # 0
    THEN [d EXCEPT ![KeyIndex(d, key)] = [key |-> key, value |-> value]]
    ELSE Append(d, [key |-> key, value |-> value])

\* AddressBook.add_record
add_record(d, record) == DictSet(d, record.name.value, record)

\* AddressBook.find: the Record, or None
find(d, name) == IF KeyIndex(d, name) = 0 THEN None ELSE <<d[KeyIndex(d, name)].value>>

\* delete that takes out the first item of the dict when the name is in it.
deleteFirstItem(d, name) == IF KeyIndex(d, name) # 0 THEN RemoveAt(d, 1) ELSE d

\* AddressBook.delete
delete(d, name) == IF KeyIndex(d, name) # 0 THEN RemoveAt(d, KeyIndex(d, name)) ELSE d

\* A Record is shared by reference: a method called on the Record that find
\* returned changes the Record the dict holds under that key.
Mutate(d, name, rec) == [d EXCEPT ![KeyIndex(d, name)].value = rec]

\* AddressBook.__str__
BookStr(d) == Join(<<"\n">>, [i \in 1..Len(d) |-> RecordStr(d[i].value)])

---------------------------------------------------------------------------
(* AddressBook.get_upcoming_birthdays *)

\* bday.replace(year=today.year), moved to today.year + 1 when it is before
\* today.  Either replace raises ValueError when the day is not in the year.
BirthdayThisYear(bday, today) ==
    LET this == ReplaceYear(bday, today.year)
    IN  IF this.exc # "" THEN this
        ELSE IF DateLess(this.val, today) THEN ReplaceYear(this.val, today.year + 1)
        ELSE this

\* CongratulationDate with the test written "> 5": a Saturday is kept.
CongratulationDateSaturdayKept(bday_this_year) ==
    IF Weekday(bday_this_year) > 5
    THEN DatePlus(bday_this_year, 7 - Weekday(bday_this_year))
    ELSE bday_this_year

\* The weekend shift: weekday() >= 5 is Saturday or Sunday, moved on by
\* 7 - weekday() days.
CongratulationDate(bday_this_year) ==
    IF Weekday(bday_this_year) >= 5
    THEN DatePlus(bday_this_year, 7 - Weekday(bday_this_year))
    ELSE bday_this_year

\* The window test of the loop body.
IsUpcoming(days_until) == 0 <= days_until /\ days_until <= 7

\* One pass of the loop body for a record with a birthday: the entries it
\* appends (none or one), or the ValueError it raises.
UpcomingOf(record, today) ==
    LET parsed == Strptime(record.birthday[1].value)
    IN  IF parsed.exc # "" THEN Raise("ValueError", "time data does not match format")
        ELSE LET this == BirthdayThisYear(parsed.val, today)
             IN  IF this.exc # "" THEN Raise("ValueError", "day is out of range for month")
                 ELSE IF IsUpcoming(DaysBetween(this.val, today))
                      THEN Return(<<[name |-> record.name.value,
                                     birthday |-> Strftime(CongratulationDate(this.val))]>>)
                      ELSE Return(<<>>)

\* The loop over data.values() from item i on, upcoming being the list so far.
RECURSIVE UpcomingFrom(_, _, _, _)
UpcomingFrom(d, i, today, upcoming) ==
    IF i > Len(d) THEN Return(upcoming)
    ELSE IF d[i].value.birthday = None THEN UpcomingFrom(d, i + 1, today, upcoming)
    ELSE LET one == UpcomingOf(d[i].value, today)
         IN  IF one.exc # "" THEN one
             ELSE UpcomingFrom(d, i + 1, today, upcoming \o one.val)

\* AddressBook.get_upcoming_birthdays, today being datetime.today().date()
get_upcoming_birthdays(d, today) == UpcomingFrom(d, 1, today, <<>>)

---------------------------------------------------------------------------
(* The command handlers.  A handler is an operator from (args, book) to    *)
(* [res, data]: what it returned or raised, and the book after it.         *)

\* str(e) of the ValueError of "a, b, *_ = args" for too short a list.
UnpackMessage(need, got) ==
    CASE need = 1 /\ got = 0 -> "not enough values to unpack (expected at least 1, got 0)"
      [] need = 2 /\ got = 0 -> "not enough values to unpack (expected at least 2, got 0)"
      [] need = 2 /\ got = 1 -> "not enough values to unpack (expected at least 2, got 1)"
      [] need = 3 /\ got = 0 -> "not enough values to unpack (expected at least 3, got 0)"
      [] need = 3 /\ got = 1 -> "not enough values to unpack (expected at least 3, got 1)"
      [] need = 3 /\ got = 2 -> "not enough values to unpack (expected at least 3, got 2)"

\* input_error: what inner returns for what func returned or raised.
input_error(r) ==
    CASE r.exc = "KeyError" -> ReturnMsg("This contact does not exist.")
      [] r.exc = "ValueError" ->
            ReturnMsg(IF r.msg # "" THEN r.msg ELSE "Invalid input. Check arguments.")
      [] r.exc = "IndexError" -> ReturnMsg("Not enough arguments. Try again.")
      [] OTHER -> r

Decorated(h) == [res |-> input_error(h.res), data |-> h.data]

\* parse_input before decoration: (cmd, args), or the ValueError of the
\* unpacking when split() yields nothing.
parse_input_func(user_input) ==
    LET parts == Split(user_input)
    IN  IF parts = <<>> THEN Raise("ValueError", UnpackMessage(1, 0))
        ELSE Return(<<Lower(Strip(Head(parts))), Tail(parts)>>)

parse_input(user_input) == input_error(parse_input_func(user_input))

add_contact_func(args, d) ==
    IF Len(args) < 2 THEN [res |-> Raise("ValueError", UnpackMessage(2, Len(args))), data |-> d]
    ELSE LET name    == args[1]
             phone   == args[2]
             isNew   == find(d, name) = None
             record  == IF isNew THEN Record(name) ELSE find(d, name)[1]
             d1      == IF isNew THEN add_record(d, record) ELSE d
             key     == IF isNew THEN record.name.value ELSE name
             message == IF isNew THEN "Contact added." ELSE "Contact updated."
         IN  IF phone # <<>>
             THEN LET added == add_phone(record, phone)
                  IN  IF added.res.exc # "" THEN [res |-> added.res, data |-> d1]
                      ELSE [res |-> ReturnMsg(message), data |-> Mutate(d1, key, added.rec)]
             ELSE [res |-> ReturnMsg(message), data |-> d1]

add_contact(args, d) == Decorated(add_contact_func(args, d))

change_contact_func(args, d) ==
    IF Len(args) < 3 THEN [res |-> Raise("ValueError", UnpackMessage(3, Len(args))), data |-> d]
    ELSE LET name == args[1]
         IN  IF find(d, name) # None
             THEN LET edited == edit_phone(find(d, name)[1], args[2], args[3])
                  IN  IF edited.res.exc # "" THEN [res |-> edited.res, data |-> d]
                      ELSE [res |-> ReturnMsg("Contact updated."),
                            data |-> Mutate(d, name, edited.rec)]
             ELSE [res |-> Raise("KeyError", ""), data |-> d]

change_contact(args, d) == Decorated(change_contact_func(args, d))

show_phone_func(args, d) ==
    IF Len(args) < 1 THEN [res |-> Raise("ValueError", UnpackMessage(1, 0)), data |-> d]
    ELSE IF find(d, args[1]) # None
         THEN [res |-> Return(JoinedPhones(find(d, args[1])[1])), data |-> d]
         ELSE [res |-> Raise("KeyError", ""), data |-> d]

show_phone(args, d) == Decorated(show_phone_func(args, d))

show_all_func(args, d) ==
    IF d = <<>> THEN [res |-> ReturnMsg("No contacts saved."), data |-> d]
    ELSE [res |-> Return(BookStr(d)), data |-> d]

show_all(args, d) == Decorated(show_all_func(args, d))

add_birthday_func(args, d) ==
    IF Len(args) < 2 THEN [res |-> Raise("ValueError", UnpackMessage(2, Len(args))), data |-> d]
    ELSE LET name == args[1]
         IN  IF find(d, name) # None
             THEN LET added == add_birthday(find(d, name)[1], args[2])
                  IN  IF added.res.exc # "" THEN [res |-> added.res, data |-> d]
                      ELSE [res |-> ReturnMsg("Birthday added."),
                            data |-> Mutate(d, name, added.rec)]
             ELSE [res |-> Raise("KeyError", ""), data |-> d]

add_birthday_cmd(args, d) == Decorated(add_birthday_func(args, d))

show_birthday_func(args, d) ==
    IF Len(args) < 1 THEN [res |-> Raise("ValueError", UnpackMessage(1, 0)), data |-> d]
    ELSE IF find(d, args[1]) # None
         THEN LET record == find(d, args[1])[1]
              IN  IF record.birthday # None
                  THEN [res |-> Return(record.birthday[1].value), data |-> d]
                  ELSE [res |-> ReturnMsg("No birthday set"), data |-> d]
         ELSE [res |-> Raise("KeyError", ""), data |-> d]

show_birthday(args, d) == Decorated(show_birthday_func(args, d))

\* The lines "name: birthday" of the upcoming list.
UpcomingLines(upcoming) ==
    [i \in 1..Len(upcoming) |-> upcoming[i].name \o <<":", " ">> \o upcoming[i].birthday]

birthdays_func(args, d, today) ==
    LET upcoming == get_upcoming_birthdays(d, today)
    IN  IF upcoming.exc # "" THEN [res |-> upcoming, data |-> d]
        ELSE IF upcoming.val = <<>>
             THEN [res |-> ReturnMsg("No birthdays in the next 7 days."), data |-> d]
             ELSE [res |-> Return(Join(<<"\n">>, UpcomingLines(upcoming.val))), data |-> d]

birthdays(args, d, today) == Decorated(birthdays_func(args, d, today))

---------------------------------------------------------------------------
(* main *)

CmdClose == <<"c", "l", "o", "s", "e">>

CmdExit == <<"e", "x", "i", "t">>

CmdHello == <<"h", "e", "l", "l", "o">>

CmdAdd == <<"a", "d", "d">>

CmdChange == <<"c", "h", "a", "n", "g", "e">>

CmdPhone == <<"p", "h", "o", "n", "e">>

CmdAll == <<"a", "l", "l">>

CmdAddBirthday == <<"a", "d", "d", "-", "b", "i", "r", "t", "h", "d", "a", "y">>

CmdShowBirthday == <<"s", "h", "o", "w", "-", "b", "i", "r", "t", "h", "d", "a", "y">>

CmdBirthdays == <<"b", "i", "r", "t", "h", "d", "a", "y", "s">>

\* The if/elif chain of the loop body: what is printed, and the book after.
Dispatch(command, args, d, today) ==
    CASE command \in {CmdClose, CmdExit} ->
            [loop |-> "exited", res |-> ReturnMsg("Good bye!"), data |-> d]
      [] command = CmdHello ->
            [loop |-> "prompt", res |-> ReturnMsg("How can I help you?"), data |-> d]
      [] command = CmdAdd -> [loop |-> "prompt"] @@ add_contact(args, d)
      [] command = CmdChange -> [loop |-> "prompt"] @@ change_contact(args, d)
      [] command = CmdPhone -> [loop |-> "prompt"] @@ show_phone(args, d)
      [] command = CmdAll -> [loop |-> "prompt"] @@ show_all(args, d)
      [] command = CmdAddBirthday -> [loop |-> "prompt"] @@ add_birthday_cmd(args, d)
      [] command = CmdShowBirthday -> [loop |-> "prompt"] @@ show_birthday(args, d)
      [] command = CmdBirthdays -> [loop |-> "prompt"] @@ birthdays(args, d, today)
      [] OTHER -> [loop |-> "prompt", res |-> ReturnMsg("Invalid command."), data |-> d]

\* "command, args = parse_input(user_input)": a tuple unpacks into its two
\* parts; a str (what input_error returns for the ValueError of parse_input)
\* unpacks only when it has exactly two characters, and otherwise the
\* ValueError of the unpacking is raised in main, where nothing catches it.
\* A command of one character is none of the commands.
main_body(user_input, d, today) ==
    IF user_input = <<>>
    THEN [loop |-> "prompt", res |-> ReturnMsg("Empty input. Please try again."), data |-> d]
    ELSE LET parsed == parse_input(user_input)
         IN  IF parsed.msg = ""
             THEN Dispatch(parsed.val[1], parsed.val[2], d, today)
             ELSE IF Len(parsed.msg) = 2
                  THEN [loop |-> "prompt", res |-> ReturnMsg("Invalid command."), data |-> d]
                  ELSE [loop |-> "crashed",
                        res |-> Raise("ValueError", "too many values to unpack (expected 2)"),
                        data |-> d]

---------------------------------------------------------------------------
(* The inputs the model draws from *)

Ten(c) == [i \in 1..10 |-> c]

PhoneAscii == <<"0", "1", "2", "3", "4", "5", "6", "7", "8", "9">>

PhoneSuperscript == Ten("U+00B2")

PhoneShort == <<"1", "2", "3">>

PhoneLong == PhoneAscii \o <<"0">>

PhoneLetter == <<"0", "1", "2", "3", "4", "5", "6", "7", "8", "a">>

PhoneInputs == {PhoneAscii, PhoneSuperscript, PhoneShort, PhoneLong, PhoneLetter, <<>>}

\* The phones looked up, removed or replaced, and the replacements.
OldPhones == {PhoneAscii, PhoneSuperscript, PhoneShort}

NewPhones == {PhoneAscii, PhoneSuperscript, PhoneShort, PhoneLetter}

NameInputs == {<<>>, <<"A">>}

Date(d1, d2, m1, m2, y1, y2, y3, y4) == <<d1, d2, ".", m1, m2, ".", y1, y2, y3, y4>>

BdaySaturday == Date("1", "5", "0", "6", "2", "0", "2", "4")

BdayLeapDay == Date("2", "9", "0", "2", "2", "0", "2", "4")

BirthdayInputs ==
    {BdaySaturday,
     Date("3", "1", "0", "2", "2", "0", "2", "4"),
     Date("0", "0", "0", "1", "2", "0", "2", "0"),
     <<"2", "0", "2", "4", "-", "0", "6", "-", "1", "5">>}

\* Values of datetime.today().date()
Todays == {MkDate(2024, 6, 10), MkDate(2024, 6, 16)}

\* Records handed to add_record: fresh ones, and ones with a phone already.
RecordInputs ==
    {Record(n) : n \in NameInputs}
        \cup {add_phone(Record(n), PhoneAscii).rec : n \in NameInputs}

ArgLists ==
    {<<>>} \cup {<<n>> : n \in NameInputs}
        \cup {<<n, p>> : n \in NameInputs, p \in PhoneInputs}

---------------------------------------------------------------------------
(* The state machine *)

Init ==
    /\ data = <<>>
    /\ prev = <<>>
    /\ op = [name |-> "AddressBook", args |-> <<>>]
    /\ ret = Return(None)
    /\ loop = "prompt"

RECURSIVE TotalPhones(_)
TotalPhones(d) == IF d = <<>> THEN 0 ELSE Len(Head(d).value.phones) + TotalPhones(Tail(d))

WithinBounds(d) == TotalPhones(d) <= MaxPhones

\* A call made on the book (or on a Record of it) from outside main.
Step(name, args, res, d) ==
    /\ WithinBounds(d)
    /\ op' = [name |-> name, args |-> args]
    /\ ret' = res
    /\ data' = d
    /\ prev' = data
    /\ UNCHANGED loop

AddPhone(n, p) ==
    /\ find(data, n) # None
    /\ LET c == add_phone(find(data, n)[1], p)
       IN  Step("add_phone", <<n, p>>, c.res, Mutate(data, n, c.rec))

RemovePhone(n, p) ==
    /\ find(data, n) # None
    /\ LET c == remove_phone(find(data, n)[1], p)
       IN  Step("remove_phone", <<n, p>>, c.res, Mutate(data, n, c.rec))

EditPhone(n, old, new) ==
    /\ find(data, n) # None
    /\ LET c == edit_phone(find(data, n)[1], old, new)
       IN  Step("edit_phone", <<n, old, new>>, c.res, Mutate(data, n, c.rec))

FindPhone(n, p) ==
    /\ find(data, n) # None
    /\ Step("find_phone", <<n, p>>, Return(find_phone(find(data, n)[1], p)), data)

AddBirthday(n, b) ==
    /\ find(data, n) # None
    /\ LET c == add_birthday(find(data, n)[1], b)
       IN  Step("add_birthday", <<n, b>>, c.res, Mutate(data, n, c.rec))

AddRecord(r) == Step("add_record", <<r>>, Return(None), add_record(data, r))

Find(n) == Step("find", <<n>>, Return(find(data, n)), data)

Delete(n) == Step("delete", <<n>>, Return(None), delete(data, n))

Str == Step("__str__", <<>>, Return(BookStr(data)), data)

GetUpcomingBirthdays(t) ==
    Step("get_upcoming_birthdays", <<t>>, get_upcoming_birthdays(data, t), data)

Handler(name, args, h) == Step(name, args, h.res, h.data)

AddContact(a) == Handler("add_contact", a, add_contact(a, data))

ChangeContact(a) == Handler("change_contact", a, change_contact(a, data))

ShowPhone(a) == Handler("show_phone", a, show_phone(a, data))

ShowAll(a) == Handler("show_all", a, show_all(a, data))

AddBirthdayCmd(a) == Handler("add_birthday_cmd", a, add_birthday_cmd(a, data))

ShowBirthday(a) == Handler("show_birthday", a, show_birthday(a, data))

Birthdays(t) == Handler("birthdays", <<t>>, birthdays(<<>>, data, t))

Next ==
    \/ \E n \in NameInputs, p \in PhoneInputs : AddPhone(n, p)
    \/ \E n \in NameInputs, p \in OldPhones : RemovePhone(n, p)
    \/ \E n \in NameInputs, old \in OldPhones, new \in NewPhones : EditPhone(n, old, new)
    \/ \E n \in NameInputs, p \in OldPhones : FindPhone(n, p)
    \/ \E n \in NameInputs, b \in BirthdayInputs : AddBirthday(n, b)
    \/ \E r \in RecordInputs : AddRecord(r)
    \/ \E n \in NameInputs : Find(n)
    \/ \E n \in NameInputs : Delete(n)
    \/ Str
    \/ \E t \in Todays : GetUpcomingBirthdays(t)
    \/ \E a \in ArgLists : AddContact(a)
    \/ \E n \in NameInputs, new \in {PhoneSuperscript, PhoneShort} :
            ChangeContact(<<n, PhoneAscii, new>>)
    \/ \E a \in {<<>>, <<<<"A">>, PhoneShort>>, <<<<"A">>, PhoneShort, PhoneAscii>>} :
            ChangeContact(a)
    \/ \E a \in {<<>>} \cup {<<n>> : n \in NameInputs} : ShowPhone(a)
    \/ ShowAll(<<>>)
    \/ \E n \in NameInputs, b \in {BdaySaturday, <<"x">>} : AddBirthdayCmd(<<n, b>>)
    \/ AddBirthdayCmd(<<<<"A">>>>)
    \/ \E a \in {<<>>} \cup {<<n>> : n \in NameInputs} : ShowBirthday(a)
    \/ \E t \in Todays : Birthdays(t)

Spec == Init /\ [][Next]_vars

---------------------------------------------------------------------------
(* get_upcoming_birthdays as a function of the book and of today: the      *)
(* books are those of at most two Records whose birthdays, if any, passed  *)
(* Birthday's validation.                                                  *)

BdayInputs ==
    {BdaySaturday, BdayLeapDay,
     Date("1", "6", "0", "6", "2", "0", "2", "4"),
     Date("1", "2", "0", "6", "1", "9", "9", "0"),
     Date("2", "0", "0", "6", "2", "0", "2", "4"),
     Date("0", "1", "0", "1", "2", "0", "0", "0"),
     Date("3", "1", "1", "2", "1", "9", "9", "9"),
     <<"1", ".", "3", ".", "2", "0", "2", "4">>,
     Date("3", "1", "0", "2", "2", "0", "2", "4"),
     Date("2", "9", "0", "2", "2", "0", "2", "3")}

\* Record(name), with add_birthday(b) called on it when b is not None; a
\* birthday that Birthday rejects leaves the Record without one.
RecordWith(name, b) == IF b = None THEN Record(name) ELSE add_birthday(Record(name), b[1]).rec

ValidBirthdays == {b \in BdayInputs : Birthday(b).exc = ""}

BirthdayOptions == {None} \cup {<<b>> : b \in ValidBirthdays}

BdayBooks ==
    {<<>>}
        \cup {add_record(<<>>, RecordWith(<<"A">>, a)) : a \in BirthdayOptions}
        \cup {add_record(add_record(<<>>, RecordWith(<<"A">>, a)), RecordWith(<<"B">>, b)) :
                a \in BirthdayOptions, b \in BirthdayOptions}

DatesFrom(y, m, d, n) == {DatePlus(MkDate(y, m, d), k) : k \in 0..(n - 1)}

BdayTodays ==
    DatesFrom(2024, 6, 7, 11) \cup DatesFrom(2024, 12, 23, 10)
        \cup DatesFrom(2024, 2, 21, 10) \cup DatesFrom(2025, 2, 21, 10)
        \cup DatesFrom(2023, 12, 28, 5)

BdayInit ==
    /\ data \in BdayBooks
    /\ prev = data
    /\ op = [name |-> "AddressBook", args |-> <<>>]
    /\ ret = Return(None)
    /\ loop = "prompt"

BdayNext ==
    \/ \E t \in BdayTodays : GetUpcomingBirthdays(t)
    \/ \E t \in BdayTodays : Birthdays(t)

BdaySpec == BdayInit /\ [][BdayNext]_vars

---------------------------------------------------------------------------
(* The command loop of main: one step is one pass of the loop body for the *)
(* line that input() returned.                                             *)

Words(tokens) == Join(<<" ">>, tokens)

Lines ==
    {<<>>, <<" ">>, <<" ", "\t", " ">>}
        \cup {Words(<<c>>) : c \in {CmdClose, CmdExit, CmdHello, CmdAll, CmdBirthdays,
                                    CmdAdd, <<"x", "y">>}}
        \cup {Words(<<CmdAdd, <<"A">>, p>>) : p \in {PhoneAscii, PhoneSuperscript, PhoneShort}}
        \cup {<<" ">> \o Words(<<CmdAdd, <<"B">>, PhoneAscii>>),
              Words(<<<<"A", "d", "D">>, <<"A">>, PhoneAscii, <<"x">>>>)}
        \cup {Words(<<CmdChange, <<"A">>, PhoneAscii, p>>) : p \in {PhoneSuperscript, PhoneShort}}
        \cup {Words(<<CmdChange, <<"B">>, PhoneSuperscript>>)}
        \cup {Words(<<CmdPhone, n>>) : n \in {<<"A">>, <<"C">>}}
        \cup {Words(<<CmdShowBirthday, <<"A">>>>)}
        \cup {Words(<<CmdAddBirthday, <<"A">>, b>>) : b \in {BdaySaturday, BdayLeapDay}}
        \cup {Words(<<CmdAddBirthday, <<"B">>, <<"x">>>>)}

MainLoop(user_input, today) ==
    /\ loop = "prompt"
    /\ LET m == main_body(user_input, data, today)
       IN  /\ WithinBounds(m.data)
           /\ op' = [name |-> "main", args |-> <<user_input>>]
           /\ ret' = m.res
           /\ data' = m.data
           /\ prev' = data
           /\ loop' = m.loop

MainNext == \E user_input \in Lines, today \in {MkDate(2024, 6, 10), MkDate(2025, 2, 27)} :
    MainLoop(user_input, today)

MainSpec == Init /\ [][MainNext]_vars

---------------------------------------------------------------------------
(* Properties of get_upcoming_birthdays (BdaySpec) *)

Called(name) == op.name = name

\* Whether the call returned a list holding an entry for that name.
HasEntry(res, name) == res.exc = "" /\ \E j \in 1..Len(res.val) : res.val[j].name = name

\* The birthday's day and month in year y, when the calendar has that day.
OccursIn(bday, y) == ValidDate(y, bday.month, bday.day)

Occurrence(bday, y) == MkDate(y, bday.month, bday.day)

\* The next occurrence of a birthday that has one: in today's year, or in
\* the year after when that date is before today.
NextOccurrence(bday, today) ==
    IF DateLess(Occurrence(bday, today.year), today)
    THEN Occurrence(bday, today.year + 1)
    ELSE Occurrence(bday, today.year)

HasNextOccurrence(bday, today) ==
    /\ OccursIn(bday, today.year)
    /\ DateLess(Occurrence(bday, today.year), today) => OccursIn(bday, today.year + 1)

\* A Record with a birthday whose next occurrence is 0 to 7 days from today.
DueWithinWeek(rec, today) ==
    /\ rec.birthday # None
    /\ LET bday == Strptime(rec.birthday[1].value).val
       IN  /\ HasNextOccurrence(bday, today)
           /\ DaysBetween(NextOccurrence(bday, today), today) \in 0..7

\* C1: get_upcoming_birthdays returns an entry for a Record if and only if
\* the Record has a birthday whose next occurrence is between 0 and 7 days
\* after today, for every book and every today.
C1_EntryIffDueWithinWeek ==
    Called("get_upcoming_birthdays") =>
        \A i \in 1..Len(data) :
            HasEntry(ret, data[i].key) <=> DueWithinWeek(data[i].value, op.args[1])

\* C9: get_upcoming_birthdays is total: whatever validated birthdays the
\* book holds and whatever today is, the call returns and raises nothing.
C9_UpcomingNeverRaises == Called("get_upcoming_birthdays") => ret.exc = ""

\* The date the claim gives for an occurrence: itself from Monday to Friday,
\* two days on for a Saturday, one day on for a Sunday.
ExpectedCongratulation(occ) ==
    CASE Weekday(occ) \in 0..4 -> occ
      [] Weekday(occ) = 5 -> DatePlus(occ, 2)
      [] Weekday(occ) = 6 -> DatePlus(occ, 1)

\* C2: every returned entry's congratulation date is the next occurrence of
\* the birthday when that is a Monday to Friday, and otherwise the Monday
\* that follows it (a Saturday moved by 2 days, a Sunday by 1); so no
\* returned date is a Saturday or a Sunday.
C2_CongratulationDate ==
    Called("get_upcoming_birthdays") /\ ret.exc = "" =>
        \A j \in 1..Len(ret.val) :
            LET rec  == find(data, ret.val[j].name)[1]
                occ  == NextOccurrence(Strptime(rec.birthday[1].value).val, op.args[1])
                date == Strptime(ret.val[j].birthday)
            IN  /\ ret.val[j].birthday = Strftime(ExpectedCongratulation(occ))
                /\ date.exc = ""
                /\ Weekday(date.val) \in 0..4
                /\ Weekday(occ) \in {5, 6} =>
                        /\ Weekday(date.val) = 0
                        /\ DaysBetween(date.val, occ) \in 1..2

\* A Saturday birthday five days ahead (15.06.2024 seen from Monday
\* 10.06.2024) was returned as the Monday after it, 17.06.2024.
C2_Witness ==
    /\ Called("get_upcoming_birthdays")
    /\ ret.exc = ""
    /\ op.args[1] = MkDate(2024, 6, 10)
    /\ \E j \in 1..Len(ret.val) :
            /\ find(data, ret.val[j].name)[1].birthday = <<Field(BdaySaturday)>>
            /\ ret.val[j].birthday = Date("1", "7", "0", "6", "2", "0", "2", "4")

---------------------------------------------------------------------------
(* Properties of Record and AddressBook (Spec) *)

\* A string of exactly ten decimal digits.
TenDecimalDigits(s) == Len(s) = 10 /\ \A i \in 1..Len(s) : s[i] \in AsciiDigits

\* C3: edit_phone(old, new) is all or nothing: it succeeds and the first
\* phone equal to old is gone with new appended, or it fails (old is not in
\* the list, or new is not ten digits) and the book, the Record's phone list
\* with it, is as before, old still being in the list if it was.
C3_EditAllOrNothing ==
    Called("edit_phone") =>
        LET n      == op.args[1]
            old    == op.args[2]
            new    == op.args[3]
            before == find(prev, n)[1]
            after  == find(data, n)[1]
            i      == PhoneIndex(before.phones, old)
        IN  \/ /\ ret.exc = ""
               /\ i # 0
               /\ after.phones = Append(RemoveAt(before.phones, i), Field(new))
               /\ data = Mutate(prev, n, [before EXCEPT !.phones = after.phones])
            \/ /\ ret.exc = "ValueError"
               /\ i = 0 \/ ~TenDecimalDigits(new)
               /\ data = prev
               /\ i # 0 => PhoneIndex(after.phones, old) # 0

\* An edit whose old phone is in the list and whose new value is rejected
\* has failed, and old is still there.
C3_Witness ==
    /\ Called("edit_phone")
    /\ ret.exc = "ValueError"
    /\ ret.msg = "Phone number must be 10 digits"
    /\ PhoneIndex(find(prev, op.args[1])[1].phones, op.args[2]) # 0
    /\ PhoneIndex(find(data, op.args[1])[1].phones, op.args[2]) # 0

\* C4: whatever calls were made, every phone stored in a Record is a string
\* of exactly ten decimal digits.
C4_StoredPhonesTenDigits ==
    \A i \in 1..Len(data) :
        \A j \in 1..Len(data[i].value.phones) :
            TenDecimalDigits(data[i].value.phones[j].value)

\* text.split("\n")
RECURSIVE SplitLinesFrom(_, _, _)
SplitLinesFrom(s, cur, acc) ==
    IF s = <<>> THEN Append(acc, cur)
    ELSE IF Head(s) = "\n" THEN SplitLinesFrom(Tail(s), <<>>, Append(acc, cur))
    ELSE SplitLinesFrom(Tail(s), Append(cur, Head(s)), acc)

\* The lines of the listing of all contacts.
Listing(d) ==
    LET lines == SplitLinesFrom(BookStr(d), <<>>, <<>>)
    IN  {lines[i] : i \in 1..Len(lines)}

\* The name a call adds a Record under, if it is one that can add one.
Adds(name) ==
    \/ Called("add_record") /\ op.args[1].name.value = name
    \/ Called("add_contact") /\ Len(op.args) >= 2 /\ op.args[1] = name

\* C5: after delete(name), find(name) is None and the listing has no line for
\* that Record; a name that is not in the book stays out of it until a call
\* adds a Record under it; delete of a name that is not in the book raises
\* nothing and leaves the book as it was; every other entry is unchanged.
C5_Delete ==
    /\ Called("delete") =>
        LET n == op.args[1]
        IN  /\ ret.exc = ""
            /\ find(data, n) = None
            /\ find(prev, n) # None => RecordStr(find(prev, n)[1]) \notin Listing(data)
            /\ find(prev, n) = None => data = prev
            /\ Len(data) = Len(prev) - (IF find(prev, n) # None THEN 1 ELSE 0)
            /\ \A i \in 1..Len(prev) :
                    prev[i].key # n =>
                        /\ find(data, prev[i].key) = <<prev[i].value>>
                        /\ RecordStr(prev[i].value) \in Listing(data)
    /\ \A i \in 1..Len(data) : find(prev, data[i].key) = None => Adds(data[i].key)

\* A delete took one of two Records out of the book.
C5_Witness ==
    /\ Called("delete")
    /\ find(prev, op.args[1]) # None
    /\ Len(prev) = 2
    /\ Len(data) = 1

\* C7: the book holds at most one Record per name and every key is the name
\* of its Record; after add_record(r), find(r.name) is r, a Record that was
\* under that name is replaced, and no other entry has changed.
C7_OneRecordPerName ==
    /\ \A i, j \in 1..Len(data) : data[i].key = data[j].key => i = j
    /\ \A i \in 1..Len(data) : data[i].key = data[i].value.name.value
    /\ Called("add_record") =>
        LET r == op.args[1]
        IN  /\ find(data, r.name.value) = <<r>>
            /\ Len(data) = Len(prev) + (IF find(prev, r.name.value) = None THEN 1 ELSE 0)
            /\ \A i \in 1..Len(prev) :
                    prev[i].key # r.name.value => find(data, prev[i].key) = <<prev[i].value>>

\* add_record replaced a different Record of the same name, beside another.
C7_Witness ==
    /\ Called("add_record")
    /\ find(prev, op.args[1].name.value) # None
    /\ find(prev, op.args[1].name.value) # <<op.args[1]>>
    /\ find(data, op.args[1].name.value) = <<op.args[1]>>
    /\ Len(data) = 2

HandlerNames ==
    {"add_contact", "change_contact", "show_phone", "show_all", "add_birthday_cmd",
     "show_birthday", "birthdays"}

\* What input_error returns for an exception.
ErrorMessages ==
    {"This contact does not exist.", "Invalid input. Check arguments.",
     "Not enough arguments. Try again.", "Phone number must be 10 digits",
     "Phone number not found", "Old phone number not found",
     "Invalid date. Ensure the date is valid and in DD.MM.YYYY format",
     "day is out of range for month"}
        \cup UNION {{UnpackMessage(need, got) : got \in 0..(need - 1)} : need \in 1..3}

\* C10: a command handler that reports an error leaves the book as it was.
C10_ErrorLeavesBook ==
    op.name \in HandlerNames /\ ret.msg \in ErrorMessages => data = prev

---------------------------------------------------------------------------
(* Properties of the command loop (MainSpec) *)

\* C6: no input line ends the loop but the commands close and exit.
C6_LoopEndsOnlyOnCloseOrExit ==
    loop # "prompt" =>
        /\ loop = "exited"
        /\ Called("main")
        /\ parse_input(op.args[1]).val[1] \in {CmdClose, CmdExit}

============================================================================
